---- MODULE Spec2Model ----
(***************************************************************************)
(* Model of agentscope: the batch log parser (LogParser), the analytics    *)
(* engine (Analytics), the anomaly detector (AnomalyDetector) and the      *)
(* real-time tail follower (Watcher).                                      *)
(*                                                                         *)
(* Time is counted in whole hours since an epoch that falls on a UTC       *)
(* midnight; a local wall clock is UTC + tz.  Money is counted in integer  *)
(* units.  A raw log line is a record describing the JSON text it holds.   *)
(***************************************************************************)
EXTENDS Integers, Sequences, FiniteSets, TLC

VARIABLES
  \* ---- Watcher (tail follower) ----
  files,          \* path -> the file on disk: whether it exists, its raw lines
  filePositions,  \* Watcher.filePositions: path -> byte offset, or Untracked
  stats,          \* Watcher.stats (RunningStats)
  started,        \* scanExisting has run and the handlers are installed
  pendingAdd,     \* paths with an 'add' notification not yet delivered
  pendingChange,  \* paths with a 'change' notification not yet delivered
  execs,          \* in-flight processNewLines executions, by slot
  folded,         \* history: path -> per line, how often it was folded
  shown,          \* last snapshot written by printStatus
  \* ---- LogParser (batch path) ----
  pfile,          \* raw lines of the file being parsed
  ppc,            \* position of parseFile: "read", "fold", "done", "threw"
  pidx,           \* index of the next raw line / entry
  plines,         \* parseFile's `lines`: the decoded entries
  session,        \* the Session under construction, or NoSession
  \* ---- Analytics / AnomalyDetector ----
  now,            \* Analytics.now, UTC hours
  tz,             \* local time zone offset, hours
  sessions,       \* Analytics.sessions
  apc,            \* "idle" or the name of the last query
  days,           \* argument of the last query
  filtered,       \* result of filterByDays
  daily,          \* result of getDailyStats
  weekly,         \* result of getWeeklySummary
  anomalies,      \* result of AnomalyDetector.detect
  \* ---- LogParser.parseAll (batch ingester) ----
  logDir,         \* the log directory: whether it exists, its entries
  batch           \* parseAll: position, candidate files, index, sessions

wvars == <<files, filePositions, stats, started, pendingAdd, pendingChange,
           execs, folded, shown>>
pvars == <<pfile, ppc, pidx, plines, session>>
avars == <<now, tz, sessions, apc, days, filtered, daily, weekly, anomalies>>
dvars == <<logDir, batch>>
vars == <<wvars, pvars, avars, dvars>>

(***************************************************************************)
(* Generic helpers                                                         *)
(***************************************************************************)
RECURSIVE SumSeq(_)
SumSeq(s) == IF s = <<>> THEN 0 ELSE Head(s) + SumSeq(Tail(s))

Map(f(_), s) == [i \in 1..Len(s) |-> f(s[i])]

RECURSIVE Reverse(_)
Reverse(s) == IF s = <<>> THEN <<>> ELSE Append(Reverse(Tail(s)), Head(s))

RemoveAt(s, i) == SubSeq(s, 1, i - 1) \o SubSeq(s, i + 1, Len(s))

(***************************************************************************)
(* Raw log lines.  syn is what JSON.parse makes of the text:               *)
(*   "blank"  whitespace only          "bad"    not JSON (parse throws)    *)
(*   "null"   the JSON literal null    "scalar" a JSON number or string    *)
(*   "object" a JSON object with the fields below                          *)
(* ts = 0 stands for an absent timestamp, ts < 0 for a timestamp text      *)
(* that is not a date.  usage.present = FALSE stands for an absent usage   *)
(* object.  content = <<>> stands for absent content.                      *)
(***************************************************************************)
\* new Date(text) of a text that is not a date: the Invalid Date, whose
\* time value is NaN.
InvalidDate == -1
\* The result of arithmetic on an Invalid Date.
NaN == -1

\* new Date(entry.timestamp) for a timestamp that is present.
ParseDate(ts) == IF ts < 0 THEN InvalidDate ELSE ts

\* new Date(entry.timestamp): an absent timestamp gives the Invalid Date.
StampOf(ts) == IF ts = 0 THEN InvalidDate ELSE ParseDate(ts)

\* a < b on Date objects: false when either is the Invalid Date.
DateLess(a, b) == a # InvalidDate /\ b # InvalidDate /\ a < b

NoUsage == [present |-> FALSE, input |-> 0, output |-> 0, cacheRead |-> 0,
            cacheWrite |-> 0, totalTokens |-> 0, cost |-> 0]

Usage(i, o, cr, cw, tot, c) ==
  [present |-> TRUE, input |-> i, output |-> o, cacheRead |-> cr,
   cacheWrite |-> cw, totalTokens |-> tot, cost |-> c]

NoMsg == [present |-> FALSE, role |-> "none", usage |-> NoUsage,
          content |-> <<>>, toolCallId |-> "none", isError |-> FALSE]

Msg(role, usage, content, callId, isError) ==
  [present |-> TRUE, role |-> role, usage |-> usage, content |-> content,
   toolCallId |-> callId, isError |-> isError]

Block(type, id, name) == [type |-> type, id |-> id, name |-> name]

\* id: the id field (session events); model: modelId and provider
\* (model_change events); "none" stands for an absent field.
Raw(syn, len, ts, type, id, model, msg) ==
  [syn |-> syn, len |-> len, ts |-> ts, type |-> type, id |-> id,
   modelId |-> model[1], provider |-> model[2], message |-> msg]

NoModel == <<"none", "none">>

BlankLine  == Raw("blank", 1, 0, "none", "none", NoModel, NoMsg)
BadLine    == Raw("bad", 2, 0, "none", "none", NoModel, NoMsg)
NullLine   == Raw("null", 2, 0, "none", "none", NoModel, NoMsg)
ScalarLine == Raw("scalar", 2, 0, "none", "none", NoModel, NoMsg)
Obj(len, ts, type, id, model, msg) == Raw("object", len, ts, type, id, model, msg)


(***************************************************************************)
(* The lines the model writes into log files.                              *)
(***************************************************************************)
ToolCallBlock(id, name) == Block("toolCall", id, name)
TextBlock == Block("text", "none", "none")

\* {}
EmptyLine == Obj(2, 0, "none", "none", NoModel, NoMsg)
\* {"type":"custom","timestamp":"soon"}
BadTsLine == Obj(3, -7, "custom", "none", NoModel, NoMsg)
\* {"type":"session","id":"s1","timestamp":4}
MetaLine == Obj(3, 4, "session", "s1", NoModel, NoMsg)
\* {"type":"model_change","modelId":"m1","provider":"p1","timestamp":1}
ModelLine == Obj(3, 1, "model_change", "none", <<"m1", "p1">>, NoMsg)
\* a user message that carries a usage object
UserLine == Obj(3, 3, "message", "none", NoModel,
                Msg("user", Usage(1, 0, 0, 0, 1, 1), <<>>, "none", FALSE))
\* an assistant turn: usage with cost, one call of tool "read" with id "x"
AsstLine == Obj(4, 2, "message", "none", NoModel,
                Msg("assistant", Usage(3, 2, 1, 1, 5, 2),
                    <<TextBlock, ToolCallBlock("x", "read")>>, "none", FALSE))
\* an assistant turn without timestamp, content or cost
Asst2Line == Obj(3, 0, "message", "none", NoModel,
                 Msg("assistant", Usage(4, 3, 0, 0, 7, 0), <<>>, "none", FALSE))
\* the failed result of call "x"
ErrLine  == Obj(2, 5, "message", "none", NoModel,
                Msg("toolResult", NoUsage, <<TextBlock>>, "x", TRUE))
\* a tool result for call "y" whose own content holds a toolCall block "y"
ResCallLine == Obj(5, 6, "message", "none", NoModel,
                   Msg("toolResult", NoUsage, <<ToolCallBlock("y", "exec")>>,
                       "y", FALSE))

(***************************************************************************)
(* File names.  The model's names are judged as the code judges them.      *)
(***************************************************************************)
\* f.endsWith('.jsonl')
EndsWithJsonl(f) == f \in {"a.jsonl", "b.jsonl", "c.deleted.jsonl",
                           "s1.jsonl", "s2.jsonl", "s3.jsonl", "s5.deleted.jsonl"}
\* f.includes('.lock')
IncludesLock(f) == f = "s4.jsonl.lock"
\* f.includes('.deleted')
IncludesDeleted(f) == f \in {"c.deleted.jsonl", "s5.deleted.jsonl"}

\* The filter of parseAll and of scanExisting.
IsCandidate(f) == EndsWithJsonl(f) /\ ~IncludesLock(f) /\ ~IncludesDeleted(f)

\* The batch ingester when parseAll is not running.
NoDir == [exists |-> FALSE, entries |-> <<>>]
BatchOff == [pc |-> "off", files |-> <<>>, idx |-> 0, sessions |-> <<>>]

(***************************************************************************)
(* Watcher                                                                 *)
(***************************************************************************)
MaxAppends == 2

Paths == {"a.jsonl", "b.jsonl", "c.deleted.jsonl"}
\* Every execution of processNewLines answers a change notification and
\* every notification an append, so MaxAppends slots hold all executions.
ExecIds == 1..MaxAppends
\* pre: how many of the lines were on disk before the watch started;
\* wrote: how many times the file was written since (appends and truncations);
\* cut: the file was truncated during the watch.
Absent == [exists |-> FALSE, lines |-> <<>>, pre |-> 0, wrote |-> 0, cut |-> FALSE]
OnDisk(ls) == [exists |-> TRUE, lines |-> ls, pre |-> Len(ls), wrote |-> 0,
               cut |-> FALSE]
\* Lines appended to the files since the watch started.
Appended == files["a.jsonl"].wrote + files["b.jsonl"].wrote
            + files["c.deleted.jsonl"].wrote
\* The file the runtime rotates (truncates to empty) during the watch.
Rotated == {"a.jsonl"}
Untracked == -1
\* A file on disk is a sequence of line names; Text gives the line a name
\* stands for.
Text(n) ==
  CASE n = "user" -> UserLine
    [] n = "asst" -> AsstLine
    [] n = "err" -> ErrLine
    [] n = "bad" -> BadLine
    [] n = "blank" -> BlankLine
    [] n = "null" -> NullLine
    [] n = "scalar" -> ScalarLine
    [] n = "empty" -> EmptyLine
    [] n = "meta" -> MetaLine
    [] n = "model" -> ModelLine
    [] n = "asst2" -> Asst2Line
    [] n = "rescall" -> ResCallLine
    [] n = "badts" -> BadTsLine
\* The lines the runtime may append to each file.
WatchLines(p) == CASE p = "a.jsonl" -> {"user", "asst", "bad"}
                   [] p = "b.jsonl" -> {"asst", "err", "bad"}
                   [] p = "c.deleted.jsonl" -> {"asst"}

\* The filter of the add and change handlers:
\* path.endsWith('.jsonl') && !path.includes('.lock')
IsSessionFile(p) == EndsWithJsonl(p) /\ ~IncludesLock(p)

\* Byte offset at which line i+1 of a file starts (= size of the first i lines).
RECURSIVE OffsetOf(_, _)
OffsetOf(file, i) == IF i = 0 THEN 0 ELSE OffsetOf(file, i - 1) + Text(file[i]).len

\* fs.statSync(path).size
Size(file) == OffsetOf(file, Len(file))

\* The line of the file that holds byte pos (pos < Size(file)).
LineIndexAt(file, pos) ==
  CHOOSE i \in 1..Len(file) : OffsetOf(file, i - 1) <= pos /\ pos < OffsetOf(file, i)

\* Indices of the lines lying wholly inside bytes [from, to).
LinesIn(file, from, to) ==
  {i \in 1..Len(file) : from <= OffsetOf(file, i - 1) /\ OffsetOf(file, i) <= to}

InitStats == [messages |-> 0, toolCalls |-> 0, tokens |-> 0, errors |-> 0,
              lastActivity |-> "null"]

\* Number of toolCall blocks of a content array.
RECURSIVE CountToolCalls(_)
CountToolCalls(content) ==
  IF content = <<>> THEN 0
  ELSE (IF Head(content).type = "toolCall" THEN 1 ELSE 0) + CountToolCalls(Tail(content))

\* Watcher.processEntry on the value JSON.parse returned for a line.
\* threw = TRUE: a TypeError left the function (entry is null).
ProcessEntry(st, entry) ==
  IF entry.syn = "null" THEN [threw |-> TRUE, stats |-> st]
  ELSE
    LET s0 == [st EXCEPT !.lastActivity = IF entry.ts # 0 THEN "entry" ELSE "clock"]
        msg == entry.message
        isMsg == entry.syn = "object" /\ entry.type = "message" /\ msg.present
        s1 == IF isMsg /\ msg.role = "user"
              THEN [s0 EXCEPT !.messages = @ + 1] ELSE s0
        s2 == IF isMsg /\ msg.role = "assistant"
              THEN [s1 EXCEPT !.toolCalls = @ + CountToolCalls(msg.content),
                              !.tokens = @ + (IF msg.usage.present
                                              THEN msg.usage.totalTokens ELSE 0)]
              ELSE s1
        s3 == IF isMsg /\ msg.role = "toolResult" /\ msg.isError
              THEN [s2 EXCEPT !.errors = @ + 1] ELSE s2
    IN [threw |-> FALSE, stats |-> s3]

\* A fold into an accumulator that is created anew for every line.
FoldOneFresh(st, line, torn) ==
  IF line.syn = "blank" \/ torn \/ line.syn = "bad" THEN InitStats
  ELSE ProcessEntry(InitStats, line).stats

\* Body of the for-await loop of processNewLines for one line: blank lines
\* are skipped, a JSON.parse or processEntry exception is swallowed.
\* torn = TRUE: the read started inside the line, so only a fragment arrived.
FoldOne(st, line, torn) ==
  IF line.syn = "blank" THEN st
  ELSE IF torn \/ line.syn = "bad" THEN st
  ELSE ProcessEntry(st, line).stats

Counters(st) == <<st.messages, st.toolCalls, st.tokens, st.errors>>
ZeroCounters == <<0, 0, 0, 0>>
AddCounters(a, b) == [i \in 1..4 |-> a[i] + b[i]]
SubCounters(a, b) == [i \in 1..4 |-> a[i] - b[i]]

IdleExec == [pc |-> "idle", path |-> "none", startPos |-> 0, size |-> 0,
             cursor |-> 0, own |-> <<>>, delta |-> ZeroCounters, quiet |-> TRUE]

Reading(e) == execs[e].pc = "reading"
InFlight(p) == {e \in ExecIds : Reading(e) /\ execs[e].path = p}

\* Watcher.scanExisting, then the handlers of start() are installed.
ScanExisting ==
  /\ ~started
  /\ filePositions' = [p \in Paths |->
        IF files[p].exists /\ IsCandidate(p) THEN Size(files[p].lines)
        ELSE Untracked]
  /\ started' = TRUE
  /\ UNCHANGED <<files, stats, pendingAdd, pendingChange, execs, folded, shown>>
  /\ UNCHANGED <<pvars, avars, dvars>>

\* Environment: the agent runtime creates a new session file.
CreateFile(p) ==
  /\ started
  /\ ~files[p].exists
  /\ files' = [files EXCEPT ![p] = OnDisk(<<>>)]
  /\ pendingAdd' = pendingAdd \cup {p}
  /\ UNCHANGED <<filePositions, stats, started, pendingChange, execs, folded, shown>>
  /\ UNCHANGED <<pvars, avars, dvars>>

\* Environment: the agent runtime appends one line to a session file.
AppendLine(p, l) ==
  /\ started
  /\ files[p].exists
  /\ Appended < MaxAppends
  /\ files' = [files EXCEPT ![p].lines = Append(@, l), ![p].wrote = @ + 1]
  /\ folded' = [folded EXCEPT ![p] = Append(@, 0)]
  /\ pendingChange' = pendingChange \cup {p}
  /\ execs' = [e \in ExecIds |->
        IF Reading(e) /\ execs[e].path = p
        THEN [execs[e] EXCEPT !.quiet = FALSE] ELSE execs[e]]
  /\ UNCHANGED <<filePositions, stats, started, pendingAdd, shown>>
  /\ UNCHANGED <<pvars, avars, dvars>>

\* Environment: the agent runtime truncates a session file to empty (log
\* rotation), once per file.
TruncateFile(p) ==
  /\ started
  /\ p \in Rotated
  /\ files[p].exists /\ ~files[p].cut /\ files[p].lines # <<>>
  /\ Appended < MaxAppends
  /\ files' = [files EXCEPT ![p].lines = <<>>, ![p].pre = 0, ![p].cut = TRUE,
                            ![p].wrote = @ + 1]
  /\ folded' = [folded EXCEPT ![p] = <<>>]
  /\ pendingChange' = pendingChange \cup {p}
  /\ execs' = [e \in ExecIds |->
        IF Reading(e) /\ execs[e].path = p
        THEN [execs[e] EXCEPT !.quiet = FALSE] ELSE execs[e]]
  /\ UNCHANGED <<filePositions, stats, started, pendingAdd, shown>>
  /\ UNCHANGED <<pvars, avars, dvars>>

\* watcher.on('add')
OnAdd(p) ==
  /\ started
  /\ p \in pendingAdd
  /\ pendingAdd' = pendingAdd \ {p}
  /\ filePositions' = IF IsSessionFile(p)
                      THEN [filePositions EXCEPT ![p] = 0] ELSE filePositions
  /\ UNCHANGED <<files, stats, started, pendingChange, execs, folded, shown>>
  /\ UNCHANGED <<pvars, avars, dvars>>


\* this.filePositions.get(filePath) || 0
StartPosZero(p) == 0
StartPos(p) == IF filePositions[p] = Untracked THEN 0 ELSE filePositions[p]

\* The offset stored when the loop has ended: stat.size, sampled before the read.
NewOffsetUnmoved(x) == x.startPos
NewOffset(x) == x.size

\* watcher.on('change') up to the first await of processNewLines: read the
\* stored offset, stat the file, return when it has not grown, else open the
\* read stream.  A free slot holds the new execution.
OnChange(p) ==
  /\ started
  /\ p \in pendingChange
  /\ p \notin pendingAdd
  /\ pendingChange' = pendingChange \ {p}
  /\ LET startPos == StartPos(p)
         size == Size(files[p].lines)
     IN IF ~IsSessionFile(p) \/ size <= startPos
        THEN UNCHANGED execs
        ELSE \E e \in ExecIds :
               /\ ~Reading(e)
               /\ \A d \in ExecIds : d < e => Reading(d)
               /\ execs' = [d \in ExecIds |->
                    IF d = e
                    THEN [pc |-> "reading", path |-> p, startPos |-> startPos,
                          size |-> size, cursor |-> startPos, own |-> <<>>,
                          delta |-> ZeroCounters, quiet |-> InFlight(p) = {}]
                    ELSE IF Reading(d) /\ execs[d].path = p
                         THEN [execs[d] EXCEPT !.quiet = FALSE]
                         ELSE execs[d]]
  /\ UNCHANGED <<files, filePositions, stats, started, pendingAdd, folded, shown>>
  /\ UNCHANGED <<pvars, avars, dvars>>

\* One iteration of `for await (const line of rl)`: the stream, opened with
\* a start and no end, delivers the next line the file holds now.  Every
\* line may arrive in a chunk of its own, so that timers and notifications
\* can run between two iterations.
FoldLine(e) ==
  /\ Reading(e)
  /\ LET x == execs[e]
         file == files[x.path].lines
     IN /\ x.cursor < Size(file)
        /\ LET i == LineIndexAt(file, x.cursor)
               torn == OffsetOf(file, i - 1) # x.cursor
               st == FoldOne(stats, Text(file[i]), torn)
           IN /\ stats' = st
              /\ folded' = [folded EXCEPT ![x.path][i] = IF torn THEN @ ELSE @ + 1]
              /\ execs' = [execs EXCEPT
                    ![e].cursor = OffsetOf(file, i),
                    ![e].own = Append(@, i),
                    ![e].delta = AddCounters(@, SubCounters(Counters(st), Counters(stats)))]
  /\ UNCHANGED <<files, filePositions, started, pendingAdd, pendingChange, shown>>
  /\ UNCHANGED <<pvars, avars, dvars>>

\* The stream has reached the end of the file: the loop ends and
\* filePositions.set(filePath, stat.size) runs.
Finish(e) ==
  /\ Reading(e)
  /\ LET x == execs[e]
     IN /\ x.cursor >= Size(files[x.path].lines)
        /\ filePositions' = [filePositions EXCEPT ![x.path] = NewOffset(x)]
  /\ execs' = [execs EXCEPT ![e] = IdleExec]
  /\ UNCHANGED <<files, stats, started, pendingAdd, pendingChange, folded, shown>>
  /\ UNCHANGED <<pvars, avars, dvars>>

\* The setInterval callback: printStatus reads this.stats.
PrintStatus ==
  /\ started
  /\ shown # stats
  /\ shown' = stats
  /\ UNCHANGED <<files, filePositions, stats, started, pendingAdd, pendingChange,
                 execs, folded>>
  /\ UNCHANGED <<pvars, avars, dvars>>

WatchNext ==
  \/ ScanExisting
  \/ \E p \in Paths : CreateFile(p)
  \/ \E p \in Paths : \E l \in WatchLines(p) : AppendLine(p, l)
  \/ \E p \in Paths : TruncateFile(p)
  \/ \E p \in Paths : OnAdd(p)
  \/ \E p \in Paths : OnChange(p)
  \/ \E e \in ExecIds : FoldLine(e)
  \/ \E e \in ExecIds : Finish(e)
  \/ PrintStatus


\* The watch command: a Watcher over a directory written by the runtime.
\* The directory holds two session files written before the watch starts,
\* one of them with .deleted in its name; the runtime creates the third
\* while the watch runs.  The parser and the
\* analytics engine do not run.
InitWatch ==
  /\ files = [p \in Paths |-> IF p = "b.jsonl" THEN Absent ELSE OnDisk(<<"user">>)]
  /\ filePositions = [p \in Paths |-> Untracked]
  /\ stats = InitStats
  /\ started = FALSE
  /\ pendingAdd = {}
  /\ pendingChange = {}
  /\ execs = [e \in ExecIds |-> IdleExec]
  /\ folded = [p \in Paths |-> [i \in 1..Len(files[p].lines) |-> 0]]
  /\ shown = InitStats
  /\ pfile = <<>> /\ ppc = "off" /\ pidx = 0 /\ plines = <<>>
  /\ session = [null |-> TRUE]
  /\ now = 0 /\ tz = 0 /\ sessions = <<>> /\ apc = "off" /\ days = 0
  /\ filtered = <<>> /\ daily = <<>> /\ weekly = <<>> /\ anomalies = <<>>
  /\ logDir = NoDir /\ batch = BatchOff

SpecWatch == InitWatch /\ [][WatchNext]_vars

(***************************************************************************)
(* Tail follower properties                                                *)
(***************************************************************************)
\* Folding the line changes a counter of RunningStats.
HasEffect(line) == Counters(FoldOne(InitStats, line, FALSE)) # ZeroCounters

\* Summed counter effects of lines first..last of a file.
RECURSIVE EffectsOf(_, _, _)
EffectsOf(file, first, last) ==
  IF first > last THEN ZeroCounters
  ELSE AddCounters(Counters(FoldOne(InitStats, Text(file[first]), FALSE)),
                   EffectsOf(file, first + 1, last))

\* C1: in a watch run over files that are only appended to, no line is
\* folded into RunningStats more than once, under every interleaving.
C1_NoDoubleCount ==
  \A p \in Paths : \A i \in 1..Len(files[p].lines) :
    (~files[p].cut /\ HasEffect(Text(files[p].lines[i]))) => folded[p][i] <= 1

\* C2: at no point are two processNewLines executions for the same file in
\* progress at once.
C2_SerializedPerFile ==
  \A p \in Paths : Cardinality(InFlight(p)) <= 1

\* C3: when processNewLines completes on a file that had K appended lines
\* beyond its stored offset, with no other activity on that file meanwhile,
\* the offset has advanced by exactly the bytes of those K lines, the
\* execution has folded exactly those K lines, each once and in order, and
\* has changed the counters by exactly their summed effects.
C3_TailExact ==
  [][\A e \in ExecIds :
       (/\ Reading(e) /\ execs'[e].pc = "idle" /\ execs[e].quiet
        /\ ~files[execs[e].path].cut
        /\ filePositions[execs[e].path] # Untracked) =>
         LET x == execs[e]
             file == files[x.path].lines
             prior == filePositions[x.path]
             first == CHOOSE i \in 1..Len(file) : OffsetOf(file, i - 1) = prior
             bytes == SumSeq([i \in 1..(Len(file) - first + 1) |->
                               Text(file[first + i - 1]).len])
         IN /\ \E i \in 1..Len(file) : OffsetOf(file, i - 1) = prior
            /\ filePositions'[x.path] = prior + bytes
            /\ x.own = [i \in 1..(Len(file) - first + 1) |-> first + i - 1]
            /\ x.delta = EffectsOf(file, first, Len(file))
            /\ Counters(stats') = Counters(stats)
    ]_vars

\* C3 witness: one undisturbed execution on a.jsonl has folded the two
\* lines appended behind the scanned offset and has reached the end of the
\* file, so that storing the new offset is its next step.
C3_Witness ==
  \E e \in ExecIds :
    /\ Reading(e) /\ execs[e].quiet /\ execs[e].path = "a.jsonl"
    /\ files["a.jsonl"].lines = <<"user", "user", "asst">>
    /\ filePositions["a.jsonl"] = 3
    /\ execs[e].own = <<2, 3>>
    /\ execs[e].cursor = Size(files["a.jsonl"].lines)
    /\ execs[e].delta = <<1, 1, 5, 0>>


\* C13: no line written before the watch started is ever folded into
\* RunningStats (a file that exists at the initial scan is tracked from its
\* size at scan time), and a file created during the watch is tracked once
\* its add notification is handled, so that its lines are read from offset 0.
C13_HistoryNotReplayed ==
  /\ \A p \in Paths : \A i \in 1..files[p].pre : folded[p][i] = 0
  /\ \A p \in Paths :
       (/\ started /\ files[p].exists /\ files[p].pre = 0
        /\ p \notin pendingAdd /\ IsSessionFile(p)) =>
         filePositions[p] # Untracked

\* The execution has changed the counters and has not yet folded every
\* line of the bytes [startPos, size) it set out to read.
MidStep(e) ==
  /\ Reading(e)
  /\ execs[e].delta # ZeroCounters
  /\ LET x == execs[e]
         file == files[x.path].lines
     IN \E i \in LinesIn(file, x.cursor, x.size) : HasEffect(Text(file[i]))

\* C14: whenever the status timer fires, the RunningStats it emits does not
\* hold the effect of only some of the lines of a processNewLines step that
\* is still in flight.
C14_WholeStepsOnly ==
  [][shown' # shown => \A e \in ExecIds : ~MidStep(e)]_vars

\* C15: across every watcher event (file added, file changed, line folded,
\* timer tick) no counter of RunningStats decreases or is reset.
C15_CountersMonotonic ==
  [][\A i \in 1..4 : Counters(stats')[i] >= Counters(stats)[i]]_vars

\* C15 witness: b.jsonl was added during the watch, two appended lines of
\* a.jsonl have been folded, and the timer has emitted the counters.
C15_Witness ==
  /\ files["b.jsonl"].exists /\ filePositions["b.jsonl"] = 0
  /\ files["a.jsonl"].lines = <<"user", "user", "asst">>
  /\ Counters(stats) = <<1, 1, 5, 0>>
  /\ shown = stats
  /\ \A e \in ExecIds : ~Reading(e)

\* C21: when processNewLines finds a tracked file smaller than its stored
\* offset, it resets the offset of that file to 0.
C21_ResetOnShrink ==
  [][\A p \in Paths :
       (/\ p \in pendingChange /\ p \notin pendingChange'
        /\ IsSessionFile(p)
        /\ filePositions[p] # Untracked
        /\ Size(files[p].lines) < filePositions[p]) =>
       filePositions'[p] = 0]_vars

\* C23: a processNewLines execution on a file that is only appended to folds
\* only lines lying inside bytes [offset, newSize), newSize being the size it
\* observed at its start.
C23_FoldsObservedRangeOnly ==
  [][\A e \in ExecIds :
       (/\ Reading(e) /\ execs'[e].pc = "reading"
        /\ ~files[execs[e].path].cut
        /\ Len(execs'[e].own) > Len(execs[e].own)) =>
       execs'[e].own[Len(execs'[e].own)]
         \in LinesIn(files[execs[e].path].lines, execs[e].startPos, execs[e].size)]_vars

\* C24: while a tracked file is only appended to, its stored offset never
\* decreases.
C24_OffsetMonotonic ==
  [][\A p \in Paths :
       (filePositions[p] # Untracked /\ ~files'[p].cut) =>
       filePositions'[p] >= filePositions[p]]_vars

(***************************************************************************)
(* LogParser: parseFile and processSession                                 *)
(***************************************************************************)
MaxFileLen == 3

ParseLines == {"blank", "bad", "null", "scalar", "empty", "meta", "model",
               "user", "asst", "asst2", "err", "rescall", "badts"}

SeqsUpTo(S, n) == UNION {[1..k -> S] : k \in 0..n}

\* What parseFile returns when no line decoded.
NoSession == [null |-> TRUE]

\* The session object processSession starts from.  startTime/endTime 0
\* stand for null, durationMs <<>> for a field that was never set.
NewSession ==
  [null |-> FALSE, id |-> "file", startTime |-> 0, endTime |-> 0,
   messages |-> <<>>, toolCalls |-> <<>>,
   tokens |-> [input |-> 0, output |-> 0, cacheRead |-> 0, cacheWrite |-> 0,
               total |-> 0],
   cost |-> 0, model |-> "null", provider |-> "null", durationMs |-> <<>>]

NoResult == [present |-> FALSE, isError |-> FALSE, timestamp |-> 0]

HasToolCallBlock(content) == \E i \in 1..Len(content) : content[i].type = "toolCall"

\* The toolCall blocks of a content array as ToolCall objects, in order.
RECURSIVE NewToolCalls(_, _)
NewToolCalls(content, ts) ==
  IF content = <<>> THEN <<>>
  ELSE (IF Head(content).type = "toolCall"
        THEN <<[id |-> Head(content).id, name |-> Head(content).name,
                timestamp |-> ts, result |-> NoResult]>>
        ELSE <<>>) \o NewToolCalls(Tail(content), ts)

\* if (msg.role === 'assistant' && entry.message.usage)
CountsUsageAnyRole(msg) == msg.usage.present
CountsUsage(msg) == msg.role = "assistant" /\ msg.usage.present

\* The message whose content blocks processSession turns into ToolCalls:
\* if (msg.content) for (const block of msg.content) ..., whatever the role.
ExtractsToolCalls(msg) == msg.content # <<>>

\* session.toolCalls.find(t => t.id === result.toolCallId): index of the
\* first ToolCall with that id, 0 when there is none.
FindToolCall(toolCalls, id) ==
  IF \E i \in 1..Len(toolCalls) : toolCalls[i].id = id
  THEN CHOOSE i \in 1..Len(toolCalls) :
         /\ toolCalls[i].id = id
         /\ \A j \in 1..(i - 1) : toolCalls[j].id # id
  ELSE 0

\* A running total that takes the value of the latest usage record.
AccumulateLast(total, delta) == delta
\* session.tokens.x += usage.x || 0; session.cost += usage.cost.total
Accumulate(total, delta) == total + delta

\* One iteration of the loop of processSession (lines 258-329).
\* threw = TRUE: reading entry.timestamp of null raised a TypeError.
FoldEntry(s, entry) ==
  IF entry.syn = "null" THEN [threw |-> TRUE, session |-> s]
  ELSE
    LET isObj == entry.syn = "object"
        ts == IF isObj THEN entry.ts ELSE 0
        d == ParseDate(ts)
        s1 == IF ts # 0
              THEN [s EXCEPT
                     !.startTime = IF s.startTime = 0 \/ DateLess(d, s.startTime)
                                   THEN d ELSE @,
                     !.endTime = IF s.endTime = 0 \/ DateLess(s.endTime, d)
                                 THEN d ELSE @]
              ELSE s
        s2 == IF isObj /\ entry.type = "session"
              THEN [s1 EXCEPT !.id = IF entry.id # "none" THEN entry.id ELSE @]
              ELSE s1
        s3 == IF isObj /\ entry.type = "model_change"
              THEN [s2 EXCEPT !.model = entry.modelId, !.provider = entry.provider]
              ELSE s2
        msg == entry.message
        isMsg == isObj /\ entry.type = "message" /\ msg.present
        s4 == IF isMsg
              THEN [s3 EXCEPT !.messages = Append(@,
                      [role |-> msg.role, timestamp |-> StampOf(ts),
                       hasToolCalls |-> HasToolCallBlock(msg.content)])]
              ELSE s3
        u == msg.usage
        s5 == IF isMsg /\ CountsUsage(msg)
              THEN [s4 EXCEPT !.tokens =
                      [input |-> Accumulate(@.input, u.input),
                       output |-> Accumulate(@.output, u.output),
                       cacheRead |-> Accumulate(@.cacheRead, u.cacheRead),
                       cacheWrite |-> Accumulate(@.cacheWrite, u.cacheWrite),
                       total |-> Accumulate(@.total, u.totalTokens)],
                    !.cost = IF u.cost # 0 THEN Accumulate(@, u.cost) ELSE @]
              ELSE s4
        s6 == IF isMsg /\ ExtractsToolCalls(msg)
              THEN [s5 EXCEPT !.toolCalls = @ \o NewToolCalls(msg.content, StampOf(ts))]
              ELSE s5
        k == FindToolCall(s6.toolCalls, msg.toolCallId)
        s7 == IF isMsg /\ msg.role = "toolResult" /\ k # 0
              THEN [s6 EXCEPT !.toolCalls[k].result =
                      [present |-> TRUE, isError |-> msg.isError,
                       timestamp |-> StampOf(ts)]]
              ELSE s6
    IN [threw |-> FALSE, session |-> s7]

\* Lines 331-334: durationMs is set when both times are.
WithDuration(s) ==
  IF s.startTime # 0 /\ s.endTime # 0
  THEN [s EXCEPT !.durationMs =
          IF s.startTime = InvalidDate \/ s.endTime = InvalidDate
          THEN <<NaN>> ELSE <<s.endTime - s.startTime>>]
  ELSE s

\* The for-await loop of parseFile on one raw line: the names of the decoded
\* entries pushed on `lines`.
Decoded(n) ==
  IF Text(n).syn = "blank" \/ Text(n).syn = "bad" THEN <<>> ELSE <<n>>

\* LogParser.parseFile, one line per step.
ReadLine ==
  /\ ppc = "read"
  /\ pidx <= Len(pfile)
  /\ plines' = plines \o Decoded(pfile[pidx])
  /\ pidx' = pidx + 1
  /\ UNCHANGED <<pfile, ppc, session>>
  /\ UNCHANGED <<wvars, avars, dvars>>

\* if (lines.length === 0) return null; else processSession starts.
EndRead ==
  /\ ppc = "read"
  /\ pidx > Len(pfile)
  /\ IF plines = <<>>
     THEN ppc' = "done" /\ session' = NoSession /\ pidx' = pidx
     ELSE ppc' = "fold" /\ session' = NewSession /\ pidx' = 1
  /\ UNCHANGED <<pfile, plines>>
  /\ UNCHANGED <<wvars, avars, dvars>>

\* One iteration of the loop of processSession.  An exception leaves
\* processSession and parseFile: no Session is returned.
FoldStep ==
  /\ ppc = "fold"
  /\ pidx <= Len(plines)
  /\ LET r == FoldEntry(session, Text(plines[pidx]))
     IN IF r.threw
        THEN ppc' = "threw" /\ session' = NoSession /\ pidx' = pidx
        ELSE ppc' = ppc /\ session' = r.session /\ pidx' = pidx + 1
  /\ UNCHANGED <<pfile, plines>>
  /\ UNCHANGED <<wvars, avars, dvars>>

\* The loop has ended: the duration is computed and the session returned.
EndFold ==
  /\ ppc = "fold"
  /\ pidx > Len(plines)
  /\ session' = WithDuration(session)
  /\ ppc' = "done"
  /\ UNCHANGED <<pfile, plines, pidx>>
  /\ UNCHANGED <<wvars, avars, dvars>>

ParseNext == ReadLine \/ EndRead \/ FoldStep \/ EndFold

\* parseFile on one session file of up to MaxFileLen lines.  The watcher
\* and the analytics engine do not run.
InitParse ==
  /\ pfile \in SeqsUpTo(ParseLines, MaxFileLen)
  /\ ppc = "read" /\ pidx = 1 /\ plines = <<>> /\ session = NoSession
  /\ files = [p \in Paths |-> Absent]
  /\ filePositions = [p \in Paths |-> Untracked]
  /\ stats = InitStats /\ started = FALSE
  /\ pendingAdd = {} /\ pendingChange = {}
  /\ execs = [e \in ExecIds |-> IdleExec]
  /\ folded = [p \in Paths |-> <<>>]
  /\ shown = InitStats
  /\ now = 0 /\ tz = 0 /\ sessions = <<>> /\ apc = "off" /\ days = 0
  /\ filtered = <<>> /\ daily = <<>> /\ weekly = <<>> /\ anomalies = <<>>
  /\ logDir = NoDir /\ batch = BatchOff

SpecParse == InitParse /\ [][ParseNext]_vars

\* parseFile as a function of the file: what it returns ("session" with the
\* Session, "null") or that it threw.
RECURSIVE DecodeAll(_)
DecodeAll(file) ==
  IF file = <<>> THEN <<>> ELSE Decoded(Head(file)) \o DecodeAll(Tail(file))

RECURSIVE FoldAll(_, _)
FoldAll(s, entries) ==
  IF entries = <<>> THEN [threw |-> FALSE, session |-> WithDuration(s)]
  ELSE LET r == FoldEntry(s, Text(Head(entries)))
       IN IF r.threw THEN [threw |-> TRUE, session |-> NoSession]
          ELSE FoldAll(r.session, Tail(entries))

ParseFile(file) ==
  LET entries == DecodeAll(file)
  IN IF entries = <<>> THEN [outcome |-> "null", session |-> NoSession]
     ELSE LET r == FoldAll(NewSession, entries)
          IN IF r.threw THEN [outcome |-> "threw", session |-> NoSession]
             ELSE [outcome |-> "session", session |-> r.session]


(***************************************************************************)
(* LogParser.parseAll                                                      *)
(* A directory entry is a name with what opening it gives: readable =      *)
(* FALSE stands for an entry whose read stream fails (a directory, a file  *)
(* without read permission); the stream's error reaches the for-await loop *)
(* of parseFile as a rejection.  readdirSync lists the names in order.     *)
(***************************************************************************)
DirNames == <<"s1.jsonl", "s2.jsonl", "s3.jsonl", "s4.jsonl.lock",
              "s5.deleted.jsonl">>

Missing == [present |-> FALSE, readable |-> FALSE, lines |-> <<>>]
Unreadable == [present |-> TRUE, readable |-> FALSE, lines |-> <<>>]
Readable(ls) == [present |-> TRUE, readable |-> TRUE, lines |-> ls]

\* What a name of the directory may hold.
DirContents(f) ==
  IF IsCandidate(f)
  THEN {Missing, Unreadable, Readable(<<>>), Readable(<<"bad", "blank">>),
        Readable(<<"meta">>), Readable(<<"asst", "err">>), Readable(<<"null">>)}
  ELSE {Missing, Readable(<<"user">>)}

\* fs.readdirSync(this.logPath): the names present, in order.
ReadDir(dir) ==
  LET Present(k) == dir.entries[k].present
  IN SelectSeq([k \in 1..Len(DirNames) |-> k], Present)

\* .filter(f => ...) of parseAll, as indices into DirNames.
Candidates(dir) ==
  LET Keep(k) == IsCandidate(DirNames[k])
  IN SelectSeq(ReadDir(dir), Keep)

\* await this.parseFile(file): a failing read stream rejects, else parseFile
\* runs on the lines of the file.
ParseFileOn(entry) ==
  IF ~entry.readable THEN [outcome |-> "threw", session |-> NoSession]
  ELSE ParseFile(entry.lines)

\* catch (err) { }: the loop goes on with the next file.
AfterErrorRethrow(b) == [b EXCEPT !.pc = "threw", !.sessions = <<>>]
AfterError(b) == [b EXCEPT !.idx = @ + 1]

\* if (!fs.existsSync(this.logPath)) return []; else list the candidates.
ListFiles ==
  /\ batch.pc = "start"
  /\ batch' = IF ~logDir.exists
              THEN [batch EXCEPT !.pc = "returned"]
              ELSE [batch EXCEPT !.pc = "loop", !.files = Candidates(logDir),
                                 !.idx = 1]
  /\ UNCHANGED logDir
  /\ UNCHANGED <<wvars, pvars, avars>>

\* One iteration of `for (const file of files)`.
ParseOne ==
  /\ batch.pc = "loop"
  /\ batch.idx <= Len(batch.files)
  /\ LET k == batch.files[batch.idx]
         r == ParseFileOn(logDir.entries[k])
     IN batch' =
          CASE r.outcome = "threw" -> AfterError(batch)
            [] r.outcome = "null" -> [batch EXCEPT !.idx = @ + 1]
            [] r.outcome = "session" ->
                 [batch EXCEPT !.idx = @ + 1,
                    !.sessions = Append(@, [file |-> DirNames[k],
                                            session |-> r.session])]
  /\ UNCHANGED logDir
  /\ UNCHANGED <<wvars, pvars, avars>>

\* return sessions
ReturnSessions ==
  /\ batch.pc = "loop"
  /\ batch.idx > Len(batch.files)
  /\ batch' = [batch EXCEPT !.pc = "returned"]
  /\ UNCHANGED logDir
  /\ UNCHANGED <<wvars, pvars, avars>>

ParseAllNext == ListFiles \/ ParseOne \/ ReturnSessions

\* parseAll on a log directory that may not exist.  The watcher, parseFile
\* as a stepwise run and the analytics engine do not run.
InitParseAll ==
  /\ logDir \in {NoDir} \cup
       {[exists |-> TRUE, entries |-> es] :
          es \in {f \in [1..Len(DirNames) -> UNION {DirContents(DirNames[k]) :
                                                   k \in 1..Len(DirNames)}] :
                    \A k \in 1..Len(DirNames) : f[k] \in DirContents(DirNames[k])}}
  /\ batch = [pc |-> "start", files |-> <<>>, idx |-> 0, sessions |-> <<>>]
  /\ files = [p \in Paths |-> Absent]
  /\ filePositions = [p \in Paths |-> Untracked]
  /\ stats = InitStats /\ started = FALSE
  /\ pendingAdd = {} /\ pendingChange = {}
  /\ execs = [e \in ExecIds |-> IdleExec]
  /\ folded = [p \in Paths |-> <<>>]
  /\ shown = InitStats
  /\ pfile = <<>> /\ ppc = "off" /\ pidx = 0 /\ plines = <<>>
  /\ session = [null |-> TRUE]
  /\ now = 0 /\ tz = 0 /\ sessions = <<>> /\ apc = "off" /\ days = 0
  /\ filtered = <<>> /\ daily = <<>> /\ weekly = <<>> /\ anomalies = <<>>

SpecParseAll == InitParseAll /\ [][ParseAllNext]_vars

\* The directory entry (index into DirNames) yields a Session.
Parses(k) ==
  /\ logDir.entries[k].present /\ logDir.entries[k].readable
  /\ ParseFile(logDir.entries[k].lines).outcome = "session"

\* C11: parseAll never throws; it returns exactly one Session for every
\* candidate file that parses, in directory order, whatever the other
\* files do (a file whose read or fold throws, or that yields null,
\* contributes nothing); a non-existent directory yields the empty list.
C11_PartialResults ==
  /\ batch.pc # "threw"
  /\ batch.pc = "returned" =>
       IF ~logDir.exists THEN batch.sessions = <<>>
       ELSE LET Good(k) == IsCandidate(DirNames[k]) /\ Parses(k)
                good == SelectSeq([k \in 1..Len(DirNames) |-> k], Good)
            IN batch.sessions =
                 [i \in 1..Len(good) |->
                    [file |-> DirNames[good[i]],
                     session |-> ParseFile(logDir.entries[good[i]].lines).session]]

\* C11 witness: the read of s1 fails, the fold of s2 throws, and parseAll
\* has returned the Session of s3 alone.
C11_Witness ==
  /\ batch.pc = "returned"
  /\ logDir.exists
  /\ logDir.entries[1] = Unreadable
  /\ logDir.entries[2] = Readable(<<"null">>)
  /\ logDir.entries[3] = Readable(<<"asst", "err">>)
  /\ Len(batch.sessions) = 1
  /\ batch.sessions[1].file = "s3.jsonl"
  /\ batch.sessions[1].session.tokens.total = 5

(***************************************************************************)
(* Session builder properties                                              *)
(***************************************************************************)
\* The entries processSession has folded so far.
FoldedPrefix == SubSeq(plines, 1, pidx - 1)

IsMessage(line) ==
  line.syn = "object" /\ line.type = "message" /\ line.message.present

\* An assistant message that carries a usage delta.
IsAssistantUsage(line) ==
  IsMessage(line) /\ line.message.role = "assistant" /\ line.message.usage.present

\* C4: the Session's tokens.total is the sum of usage.totalTokens over the
\* assistant messages that carry a usage delta, and its cost the sum of
\* their cost totals; no other event adds to either (checked after every
\* folded entry and on the returned Session).
C4_UsageTotals ==
  (ppc \in {"fold", "done"} /\ ~session.null) =>
    LET deltas == [i \in 1..Len(FoldedPrefix) |->
                     IF IsAssistantUsage(Text(FoldedPrefix[i]))
                     THEN Text(FoldedPrefix[i]).message.usage ELSE NoUsage]
    IN /\ session.tokens.total = SumSeq([i \in 1..Len(deltas) |-> deltas[i].totalTokens])
       /\ session.cost = SumSeq([i \in 1..Len(deltas) |-> deltas[i].cost])

\* C4 witness: a returned Session built from two assistant usage deltas
\* (5 and 7 tokens, cost 2 and 0) and a user message that carries usage too.
C4_Witness ==
  /\ ppc = "done"
  /\ plines = <<"asst", "user", "asst2">>
  /\ session.tokens.total = 12
  /\ session.cost = 2

\* The call ids of the toolCall blocks of the assistant messages among the
\* first n folded entries, in arrival order.
RECURSIVE AssistantCallIds(_)
AssistantCallIds(n) ==
  IF n = 0 THEN <<>>
  ELSE LET line == Text(FoldedPrefix[n])
           ids == IF IsMessage(line) /\ line.message.role = "assistant"
                  THEN LET calls == NewToolCalls(line.message.content, 0)
                       IN [k \in 1..Len(calls) |-> calls[k].id]
                  ELSE <<>>
       IN AssistantCallIds(n - 1) \o ids

\* C25: the ToolCalls of a Session are exactly the tool-invocation blocks of
\* its assistant messages, one per block in arrival order; blocks on
\* messages of any other role create no ToolCall.
C25_ToolCallsFromAssistantOnly ==
  (ppc \in {"fold", "done"} /\ ~session.null) =>
    [k \in 1..Len(session.toolCalls) |-> session.toolCalls[k].id]
      = AssistantCallIds(Len(FoldedPrefix))

IsToolResult(line) == IsMessage(line) /\ line.message.role = "toolResult"

\* A tool invocation with call id X on an assistant message among the
\* entries folded before the current one.
InvokedEarlier(X) ==
  \E j \in 1..(pidx - 1) :
    LET line == Text(plines[j])
    IN /\ IsMessage(line) /\ line.message.role = "assistant"
       /\ \E b \in 1..Len(line.message.content) :
            /\ line.message.content[b].type = "toolCall"
            /\ line.message.content[b].id = X

\* C5: folding a tool-result event with call id X attaches a Result to the
\* ToolCall with id X iff a tool invocation with id X occurred earlier in
\* the sequence; otherwise no ToolCall changes; either way the number of
\* ToolCalls stays the same.
C5_ResultAttach ==
  [][(/\ ppc = "fold" /\ ppc' = "fold" /\ pidx' = pidx + 1
      /\ IsToolResult(Text(plines[pidx]))) =>
       LET ev == Text(plines[pidx])
           X == ev.message.toolCallId
           old == session.toolCalls
           new == session'.toolCalls
       IN /\ Len(new) = Len(old)
          /\ IF InvokedEarlier(X)
             THEN \E k \in 1..Len(old) :
                    /\ old[k].id = X
                    /\ new = [old EXCEPT ![k].result =
                                [present |-> TRUE, isError |-> ev.message.isError,
                                 timestamp |-> StampOf(ev.ts)]]
             ELSE new = old
    ]_vars

\* What the finished parseFile run returned.
Returned ==
  [outcome |-> IF ppc = "threw" THEN "threw"
               ELSE IF session.null THEN "null" ELSE "session",
   session |-> session]

\* A line that fails to decode, or decodes to a value without the fields of
\* an event record: not JSON, null, a number or string, or {}.
Undecodable(line) ==
  \/ line.syn \in {"bad", "null", "scalar"}
  \/ line.syn = "object" /\ line.type = "none" /\ line.ts = 0 /\ ~line.message.present

\* C10: a line that fails to decode, or decodes to a record lacking the
\* required fields, is skipped and does not abort the file: parseFile
\* returns what it returns for the same file with that line removed.
C10_SkippedLines ==
  ppc \in {"done", "threw"} =>
    \A i \in 1..Len(pfile) :
      Undecodable(Text(pfile[i])) => Returned = ParseFile(RemoveAt(pfile, i))

\* The lines of the file that JSON.parse decodes.
DecodedLines ==
  {i \in 1..Len(pfile) : Text(pfile[i]).syn \notin {"blank", "bad"}}

\* C12: parseFile yields null exactly when zero lines of the file decode;
\* every file with at least one decoded line yields one Session, and a
\* file whose only decoded line is a session event yields a Session
\* without messages.
C12_NullIffNothingDecoded ==
  ppc \in {"done", "threw"} =>
    /\ Returned.outcome = "null" <=> DecodedLines = {}
    /\ DecodedLines # {} => Returned.outcome = "session"
    /\ (\E i \in 1..Len(pfile) :
          DecodedLines = {i} /\ pfile[i] = "meta") =>
         (Returned.outcome = "session" /\ Returned.session.messages = <<>>)

\* The instants of the valid timestamps carried by the folded entries,
\* whatever their kind.
SeenInstants ==
  {Text(FoldedPrefix[i]).ts : i \in {j \in 1..Len(FoldedPrefix) :
      Text(FoldedPrefix[j]).syn = "object" /\ Text(FoldedPrefix[j]).ts > 0}}

SetMin(S) == CHOOSE m \in S : \A x \in S : m <= x
SetMax(S) == CHOOSE m \in S : \A x \in S : m >= x

\* C16: after folding any prefix of a file's events the Session's startTime
\* is the minimum and its endTime the maximum of the event timestamps seen
\* so far (both null when none was seen), so startTime <= endTime, and the
\* returned durationMs = endTime - startTime is not negative.
C16_TimeBounds ==
  (ppc \in {"fold", "done"} /\ ~session.null) =>
    /\ (\A i \in 1..Len(FoldedPrefix) : Text(FoldedPrefix[i]).ts = 0) =>
         (session.startTime = 0 /\ session.endTime = 0)
    /\ SeenInstants # {} =>
         /\ session.startTime = SetMin(SeenInstants)
         /\ session.endTime = SetMax(SeenInstants)
         /\ session.startTime <= session.endTime
         /\ ppc = "done" =>
              /\ session.durationMs = <<session.endTime - session.startTime>>
              /\ session.durationMs[1] >= 0

\* C17: as events are folded into a Session one by one, no token total
\* (input, output, cacheRead, cacheWrite, total) and not the cost decreases
\* from one step to the next, and the cost is never negative.
C17_TotalsMonotonic ==
  [][(~session.null /\ ~session'.null) =>
       /\ session'.tokens.input >= session.tokens.input
       /\ session'.tokens.output >= session.tokens.output
       /\ session'.tokens.cacheRead >= session.tokens.cacheRead
       /\ session'.tokens.cacheWrite >= session.tokens.cacheWrite
       /\ session'.tokens.total >= session.tokens.total
       /\ session'.cost >= session.cost
       /\ session.cost >= 0 /\ session'.cost >= 0
    ]_vars

\* C17 witness: two assistant usage records, the larger one first, have
\* been folded and a third event is still to come.
C17_Witness ==
  /\ ppc = "fold" /\ pidx = 3 /\ Len(plines) = 3
  /\ plines[1] = "asst2" /\ plines[2] = "asst"
  /\ session.tokens = [input |-> 7, output |-> 5, cacheRead |-> 1,
                       cacheWrite |-> 1, total |-> 12]
  /\ session.cost = 2

\* The step-by-step run of parseFile returns what ParseFile computes.
ParseFileAgrees ==
  ppc \in {"done", "threw"} => Returned = ParseFile(pfile)


(***************************************************************************)
(* Analytics                                                               *)
(* Instants are UTC hours; the local wall clock is UTC + tz, with no       *)
(* daylight-saving change inside the window.  A Session is kept as its     *)
(* startTime (0 = null) and the name of its contents.                      *)
(***************************************************************************)
HoursPerDay == 24
MaxSessions == 2
MaxDays == 2

At(day, hour) == day * HoursPerDay + hour

\* new Date(t); setDate(getDate() + n): the same wall-clock time n days on.
AddDays(t, n) == t + n * HoursPerDay
\* setHours(0, 0, 0, 0): the local midnight that starts t's local day.
LocalMidnight(t) == ((t + tz) \div HoursPerDay) * HoursPerDay - tz
\* toISOString().split('T')[0]: the UTC calendar day of an instant.
IsoDate(t) == t \div HoursPerDay
\* getHours(): the local hour of an instant.
GetHours(t) == (t + tz) % HoursPerDay

ToolCallsOf(n, name, errors) ==
  [i \in 1..n |-> [name |-> name, isError |-> i <= errors]]

\* Eleven tools, one more than topTools keeps.
WideTools == <<"t01", "t02", "t03", "t04", "t05", "t06", "t07", "t08", "t09",
               "t10", "t11">>

\* Contents of the Sessions of the model: roles of the messages, ToolCalls
\* (isError: result?.isError), tokens.total, cost in tenths of a currency
\* unit, model.
SessionOf(x) ==
  CASE x.kind = "big" ->
         [startTime |-> x.startTime, messages |-> <<"user", "assistant">>,
          toolCalls |-> ToolCallsOf(10, "read", 6),
          tokens |-> [total |-> 12000], cost |-> 30, model |-> "m1"]
    [] x.kind = "small" ->
         [startTime |-> x.startTime, messages |-> <<"user">>,
          toolCalls |-> ToolCallsOf(1, "exec", 0),
          tokens |-> [total |-> 7], cost |-> 2, model |-> "null"]
    [] x.kind = "chat" ->
         [startTime |-> x.startTime, messages |-> <<"user", "assistant", "user">>,
          toolCalls |-> <<>>,
          tokens |-> [total |-> 5], cost |-> 1, model |-> "m1"]
    [] x.kind = "heavy" ->
         [startTime |-> x.startTime, messages |-> <<"user", "assistant">>,
          toolCalls |-> ToolCallsOf(60, "read", 0),
          tokens |-> [total |-> 90], cost |-> 3, model |-> "m1"]
    [] x.kind = "wide" ->
         [startTime |-> x.startTime, messages |-> <<"user", "assistant">>,
          toolCalls |-> [i \in 1..Len(WideTools) |->
                           [name |-> WideTools[i], isError |-> FALSE]],
          tokens |-> [total |-> 40], cost |-> 2, model |-> "m2"]

Kinds == {"big", "small"}
NowSet == {At(9, 13), At(9, 0)}
TzSet == {0, 2}
\* 0 (no startTime), instants around the lower bounds of the windows of 1
\* and 7 days, earlier and later today, and tomorrow.
StartSet == {0, At(2, 20), At(8, 5), At(8, 20), At(9, 3), At(9, 20), At(10, 1)}
SessionSet == [startTime : StartSet, kind : Kinds]

\* Sum of f over a sequence.
SumOver(f(_), seq) == SumSeq([i \in 1..Len(seq) |-> f(seq[i])])

CountRole(s, role) ==
  Cardinality({i \in 1..Len(s.messages) : s.messages[i] = role})
CountErrors(s) ==
  Cardinality({i \in 1..Len(s.toolCalls) : s.toolCalls[i].isError})

\* The filter predicate of filterByDays: s.startTime && s.startTime >= cutoff
InWindow(x, d) == x.startTime # 0 /\ x.startTime >= AddDays(now, -d)

\* Analytics.filterByDays
FilterByDays(d) ==
  LET Test(x) == InWindow(x, d) IN SelectSeq(sessions, Test)

\* The filter predicate of getDailyStats' bucket [date, nextDate).
InBucket(x, date) ==
  x.startTime # 0 /\ x.startTime >= date /\ x.startTime < AddDays(date, 1)

\* The entry getDailyStats builds for the day i days before today.
DayRow(i) ==
  LET date == LocalMidnight(AddDays(now, -i))
      Test(x) == InBucket(x, date)
      daySessions == SelectSeq(sessions, Test)
      NMsgs(x) == Len(SessionOf(x).messages)
      NCalls(x) == Len(SessionOf(x).toolCalls)
      Tokens(x) == SessionOf(x).tokens.total
      Cost(x) == SessionOf(x).cost
      NUser(x) == CountRole(SessionOf(x), "user")
      NAsst(x) == CountRole(SessionOf(x), "assistant")
  IN [date |-> IsoDate(date),
      sessions |-> Len(daySessions),
      messages |-> SumOver(NMsgs, daySessions),
      toolCalls |-> SumOver(NCalls, daySessions),
      tokens |-> SumOver(Tokens, daySessions),
      cost |-> SumOver(Cost, daySessions),
      userMessages |-> SumOver(NUser, daySessions),
      assistantMessages |-> SumOver(NAsst, daySessions)]

\* stats.reverse(): oldest first.
OldestFirstNot(rows) == rows
OldestFirst(rows) == Reverse(rows)

\* Analytics.getDailyStats
GetDailyStats(d) == OldestFirst([k \in 1..d |-> DayRow(k - 1)])


\* The names of the ToolCalls of a list of Sessions, in scan order.
RECURSIVE ToolNames(_)
ToolNames(ss) ==
  IF ss = <<>> THEN <<>>
  ELSE [i \in 1..Len(SessionOf(Head(ss)).toolCalls) |->
          SessionOf(Head(ss)).toolCalls[i].name] \o ToolNames(Tail(ss))

\* Keys of toolCallCounts in insertion order: each name where first seen.
FirstSeen(names) ==
  LET New(i) == \A j \in 1..(i - 1) : names[j] # names[i]
      firsts == SelectSeq([i \in 1..Len(names) |-> i], New)
  IN [k \in 1..Len(firsts) |-> names[firsts[k]]]

\* Object.entries(toolCallCounts): <<name, count>> pairs in insertion order.
ToolEntries(ss) ==
  LET names == ToolNames(ss)
      keys == FirstSeen(names)
  IN [k \in 1..Len(keys) |->
        <<keys[k], Cardinality({i \in 1..Len(names) : names[i] = keys[k]})>>]

\* A sort that leaves the entries in insertion order.
SortNone(entries) == entries
\* .sort((a, b) => b[1] - a[1]): stable, by count descending.
RECURSIVE SortByCount(_)
SortByCount(entries) ==
  IF entries = <<>> THEN <<>>
  ELSE LET sorted == SortByCount(SubSeq(entries, 1, Len(entries) - 1))
           e == entries[Len(entries)]
           \* e goes behind every entry whose count is >= its own
           n == Cardinality({i \in 1..Len(sorted) : sorted[i][2] >= e[2]})
       IN SubSeq(sorted, 1, n) \o <<e>> \o SubSeq(sorted, n + 1, Len(sorted))

\* A slice that keeps every entry.
SliceAll(seq, n) == seq
\* .slice(0, 10)
TopN == 10
Slice(seq, n) == SubSeq(seq, 1, IF Len(seq) < n THEN Len(seq) ELSE n)

\* hourlyActivity: a 24-entry histogram, indexed here 1..24 for hours 0..23.
HourlyActivity(ss) ==
  [h \in 1..HoursPerDay |->
     Cardinality({i \in 1..Len(ss) :
        ss[i].startTime # 0 /\ GetHours(ss[i].startTime) = h - 1})]

MaxOf(seq) == CHOOSE m \in {seq[i] : i \in 1..Len(seq)} :
                \A i \in 1..Len(seq) : seq[i] <= m

\* hourlyActivity.lastIndexOf(Math.max(...hourlyActivity)), as an hour 0..23.
PeakHourLast(hist) ==
  (CHOOSE h \in 1..Len(hist) :
     hist[h] = MaxOf(hist) /\ \A g \in (h + 1)..Len(hist) : hist[g] # MaxOf(hist)) - 1
\* hourlyActivity.indexOf(Math.max(...hourlyActivity)), as an hour 0..23.
PeakHour(hist) ==
  (CHOOSE h \in 1..Len(hist) :
     hist[h] = MaxOf(hist) /\ \A g \in 1..(h - 1) : hist[g] # MaxOf(hist)) - 1

\* Math.round(a / b) for a >= 0, b > 0.
RoundDiv(a, b) == (2 * a + b) \div (2 * b)

\* Math.round(sum / n) without the guard: 0 / 0 is NaN.
AverageUnguarded(sum, n) == IF n = 0 THEN NaN ELSE RoundDiv(sum, n)
\* sessions.length > 0 ? Math.round(sum / sessions.length) : 0
Average(sum, n) == IF n > 0 THEN RoundDiv(sum, n) ELSE 0

\* [...new Set(sessions.map(s => s.model).filter(Boolean))]
Models(ss) ==
  LET all == [i \in 1..Len(ss) |-> SessionOf(ss[i]).model]
      NotNull(mm) == mm # "null"
  IN FirstSeen(SelectSeq(all, NotNull))

\* The Sessions getWeeklySummary totals: this.filterByDays(days).
SummarySessions(d) == FilterByDays(d)

\* Analytics.getWeeklySummary
GetWeeklySummary(d) ==
  LET ss == SummarySessions(d)
      NMsgs(x) == Len(SessionOf(x).messages)
      NCalls(x) == Len(SessionOf(x).toolCalls)
      Tokens(x) == SessionOf(x).tokens.total
      Cost(x) == SessionOf(x).cost
      NErr(x) == CountErrors(SessionOf(x))
      hist == HourlyActivity(ss)
  IN [totalSessions |-> Len(ss),
      totalMessages |-> SumOver(NMsgs, ss),
      totalToolCalls |-> SumOver(NCalls, ss),
      totalTokens |-> SumOver(Tokens, ss),
      totalCost |-> SumOver(Cost, ss),
      avgTokensPerSession |-> Average(SumOver(Tokens, ss), Len(ss)),
      avgMessagesPerSession |-> Average(SumOver(NMsgs, ss), Len(ss)),
      topTools |-> Slice(SortByCount(ToolEntries(ss)), TopN),
      peakHour |-> PeakHour(hist),
      hourlyActivity |-> hist,
      models |-> Models(ss),
      toolErrors |-> SumOver(NErr, ss)]


(***************************************************************************)
(* AnomalyDetector.  A ratio or average is the pair <<numerator,           *)
(* denominator>>; a comparison of ratios is made by cross-multiplication.  *)
(* An absent date is <<>>, an absent tool "none", an absent threshold <<>>.*)
(***************************************************************************)
WeekDays == 7
SpikeFactor == 3
TokenFloor == 10000
CostFloorTenths == 5
MinErrors == 5
NightHours == 6
MinNight == 5
DominanceFloor == 50
FrequencyLimit == 100

Finding(type, severity, date, value, threshold, tool) ==
  [type |-> type, severity |-> severity, date |-> date, value |-> value,
   threshold |-> threshold, tool |-> tool]

\* The findings of a per-day rule, one test per entry of dailyStats.
PerDay(rows, Fires(_), Make(_)) ==
  LET hits == SelectSeq(rows, Fires)
  IN [i \in 1..Len(hits) |-> Make(hits[i])]

\* AnomalyDetector.detectTokenSpikes: avgDaily = totalTokens / 7
DetectTokenSpikes(dailyStats, weeklyStats) ==
  LET Fires(day) == /\ day.tokens * WeekDays > weeklyStats.totalTokens * SpikeFactor
                    /\ day.tokens > TokenFloor
      Make(day) == Finding("token_spike", "medium", <<day.date>>, <<day.tokens, 1>>,
                           <<weeklyStats.totalTokens * SpikeFactor, WeekDays>>, "none")
  IN PerDay(dailyStats, Fires, Make)

\* An error-rate rule that tests the rate alone.
DetectToolErrorsRateOnly(weeklyStats) ==
  LET calls == weeklyStats.totalToolCalls
      rate == IF calls > 0 THEN <<weeklyStats.toolErrors, calls>> ELSE <<0, 1>>
  IN IF rate[1] * 10 > rate[2]
     THEN <<Finding("high_error_rate", "high", <<>>, rate, <<1, 10>>, "none")>>
     ELSE <<>>

\* AnomalyDetector.detectToolErrors: errorRate > 0.1 && toolErrors > 5
DetectToolErrors(weeklyStats) ==
  LET calls == weeklyStats.totalToolCalls
      rate == IF calls > 0 THEN <<weeklyStats.toolErrors, calls>> ELSE <<0, 1>>
  IN IF rate[1] * 10 > rate[2] /\ weeklyStats.toolErrors > MinErrors
     THEN <<Finding("high_error_rate", "high", <<>>, rate, <<1, 10>>, "none")>>
     ELSE <<>>

\* AnomalyDetector.detectUnusualHours: nightRatio > 0.3 && nightActivity > 5
DetectUnusualHours(weeklyStats) ==
  LET night == SumSeq(SubSeq(weeklyStats.hourlyActivity, 1, NightHours))
      total == SumSeq(weeklyStats.hourlyActivity)
      ratio == IF total > 0 THEN <<night, total>> ELSE <<0, 1>>
  IN IF ratio[1] * 10 > 3 * ratio[2] /\ night > MinNight
     THEN <<Finding("unusual_hours", "low", <<>>, ratio, <<3, 10>>, "none")>>
     ELSE <<>>

\* A cost-spike rule without the floor of 0.5.
DetectCostSpikesNoFloor(dailyStats, weeklyStats) ==
  LET Fires(day) == day.cost * WeekDays > weeklyStats.totalCost * SpikeFactor
      Make(day) == Finding("cost_spike", "high", <<day.date>>, <<day.cost, 1>>,
                           <<weeklyStats.totalCost * SpikeFactor, WeekDays>>, "none")
  IN PerDay(dailyStats, Fires, Make)

\* AnomalyDetector.detectCostSpikes: avgDaily = totalCost / 7; 0.5 currency
\* units are 5 tenths.
DetectCostSpikes(dailyStats, weeklyStats) ==
  LET Fires(day) == /\ day.cost * WeekDays > weeklyStats.totalCost * SpikeFactor
                    /\ day.cost > CostFloorTenths
      Make(day) == Finding("cost_spike", "high", <<day.date>>, <<day.cost, 1>>,
                           <<weeklyStats.totalCost * SpikeFactor, WeekDays>>, "none")
  IN PerDay(dailyStats, Fires, Make)

\* AnomalyDetector.detectActivityGaps; zeros is consecutiveZero before the
\* first entry of rows.
RECURSIVE GapsFrom(_, _)
GapsFrom(rows, zeros) ==
  IF rows = <<>> THEN <<>>
  ELSE IF Head(rows).sessions = 0
       THEN (IF zeros + 1 >= 2
             THEN <<Finding("activity_gap", "low", <<Head(rows).date>>,
                            <<zeros + 1, 1>>, <<>>, "none")>>
             ELSE <<>>) \o GapsFrom(Tail(rows), zeros + 1)
       ELSE GapsFrom(Tail(rows), 0)

\* An activity-gap rule that reports a run once, when it reaches two days.
DetectActivityGapsOnce(dailyStats) ==
  LET Second(f) == f.value = <<2, 1>>
  IN SelectSeq(GapsFrom(dailyStats, 0), Second)

DetectActivityGaps(dailyStats) == GapsFrom(dailyStats, 0)

\* The tool_dominance loop of detectHighToolUsage over topTools.
RECURSIVE Dominant(_, _)
Dominant(topTools, calls) ==
  IF topTools = <<>> THEN <<>>
  ELSE LET tool == Head(topTools)[1]
           count == Head(topTools)[2]
       IN (IF count * 2 > calls /\ count > DominanceFloor
           THEN <<Finding("tool_dominance", "low", <<>>, <<count, calls>>, <<>>, tool)>>
           ELSE <<>>) \o Dominant(Tail(topTools), calls)

\* AnomalyDetector.detectHighToolUsage
DetectHighToolUsage(weeklyStats) ==
  LET calls == weeklyStats.totalToolCalls
      n == weeklyStats.totalSessions
      perSession == IF n > 0 THEN <<calls, n>> ELSE <<0, 1>>
  IN Dominant(weeklyStats.topTools, calls)
     \o (IF perSession[1] > FrequencyLimit * perSession[2]
         THEN <<Finding("high_tool_frequency", "medium", <<>>, perSession,
                        <<FrequencyLimit, 1>>, "none")>>
         ELSE <<>>)

\* The rules in the order of the table of the specification.
DetectTableOrder(dailyStats, weeklyStats) ==
  DetectTokenSpikes(dailyStats, weeklyStats)
  \o DetectCostSpikes(dailyStats, weeklyStats)
  \o DetectToolErrors(weeklyStats)
  \o DetectUnusualHours(weeklyStats)
  \o DetectActivityGaps(dailyStats)
  \o DetectHighToolUsage(weeklyStats)

\* The anomalies.push(...) calls of detect, in their order.
RunRules(dailyStats, weeklyStats) ==
  DetectTokenSpikes(dailyStats, weeklyStats)
  \o DetectToolErrors(weeklyStats)
  \o DetectUnusualHours(weeklyStats)
  \o DetectCostSpikes(dailyStats, weeklyStats)
  \o DetectActivityGaps(dailyStats)
  \o DetectHighToolUsage(weeklyStats)

\* AnomalyDetector.detect
Detect == RunRules(GetDailyStats(WeekDays), GetWeeklySummary(WeekDays))

(***************************************************************************)
(* The report commands: an Analytics object over parsed Sessions answers   *)
(* one query.                                                              *)
(***************************************************************************)
DaysSet == 1..MaxDays

CallFilterByDays(d) ==
  /\ apc = "idle"
  /\ apc' = "filterByDays" /\ days' = d
  /\ filtered' = FilterByDays(d)
  /\ UNCHANGED <<now, tz, sessions, daily, weekly, anomalies>>
  /\ UNCHANGED <<wvars, pvars, dvars>>

CallGetDailyStats(d) ==
  /\ apc = "idle"
  /\ apc' = "getDailyStats" /\ days' = d
  /\ daily' = GetDailyStats(d)
  /\ UNCHANGED <<now, tz, sessions, filtered, weekly, anomalies>>
  /\ UNCHANGED <<wvars, pvars, dvars>>

CallGetWeeklySummary(d) ==
  /\ apc = "idle"
  /\ apc' = "getWeeklySummary" /\ days' = d
  /\ weekly' = <<GetWeeklySummary(d)>>
  /\ UNCHANGED <<now, tz, sessions, filtered, daily, anomalies>>
  /\ UNCHANGED <<wvars, pvars, dvars>>

CallDetect ==
  /\ apc = "idle"
  /\ apc' = "detect" /\ days' = WeekDays
  /\ anomalies' = Detect
  /\ UNCHANGED <<now, tz, sessions, filtered, daily, weekly>>
  /\ UNCHANGED <<wvars, pvars, dvars>>

AnalyticsNext ==
  \/ \E d \in DaysSet : CallFilterByDays(d)
  \/ \E d \in DaysSet : CallGetDailyStats(d)
  \/ \E d \in DaysSet : CallGetWeeklySummary(d)
  \/ CallDetect

\* new Analytics(sessions) at reference time now.  The watcher and the
\* parser do not run.
InitAnalytics ==
  /\ now \in NowSet /\ tz \in TzSet
  /\ sessions \in SeqsUpTo(SessionSet, MaxSessions)
  /\ apc = "idle" /\ days = 0
  /\ filtered = <<>> /\ daily = <<>> /\ weekly = <<>> /\ anomalies = <<>>
  /\ files = [p \in Paths |-> Absent]
  /\ filePositions = [p \in Paths |-> Untracked]
  /\ stats = InitStats /\ started = FALSE
  /\ pendingAdd = {} /\ pendingChange = {}
  /\ execs = [e \in ExecIds |-> IdleExec]
  /\ folded = [p \in Paths |-> <<>>]
  /\ shown = InitStats
  /\ pfile = <<>> /\ ppc = "off" /\ pidx = 0 /\ plines = <<>>
  /\ session = [null |-> TRUE]
  /\ logDir = NoDir /\ batch = BatchOff

SpecAnalytics == InitAnalytics /\ [][AnalyticsNext]_vars

\* Sessions for the summary and the tool-usage rule: no tool call at all, one
\* tool called 60 times, eleven tools called once, one tool called once; with
\* no startTime, an unparsable one, or one of today.
SummaryKinds == {"chat", "heavy", "wide", "small"}
SummaryStarts == {0, InvalidDate, At(9, 3)}
SummarySessionSet == [startTime : SummaryStarts, kind : SummaryKinds]

SummaryNext ==
  \/ \E d \in DaysSet : CallGetWeeklySummary(d)
  \/ CallDetect

\* new Analytics(sessions) on Sessions of the kinds above.
InitSummary ==
  /\ now = At(9, 13) /\ tz \in TzSet
  /\ sessions \in SeqsUpTo(SummarySessionSet, MaxSessions)
  /\ apc = "idle" /\ days = 0
  /\ filtered = <<>> /\ daily = <<>> /\ weekly = <<>> /\ anomalies = <<>>
  /\ files = [p \in Paths |-> Absent]
  /\ filePositions = [p \in Paths |-> Untracked]
  /\ stats = InitStats /\ started = FALSE
  /\ pendingAdd = {} /\ pendingChange = {}
  /\ execs = [e \in ExecIds |-> IdleExec]
  /\ folded = [p \in Paths |-> <<>>]
  /\ shown = InitStats
  /\ pfile = <<>> /\ ppc = "off" /\ pidx = 0 /\ plines = <<>>
  /\ session = [null |-> TRUE]
  /\ logDir = NoDir /\ batch = BatchOff

SpecSummary == InitSummary /\ [][SummaryNext]_vars


(***************************************************************************)
(* Aggregator and detector properties                                      *)
(***************************************************************************)
Column(rows, Field(_)) == SumSeq([k \in 1..Len(rows) |-> Field(rows[k])])

\* C6: the totals of getWeeklySummary(N) equal the sums of the
\* corresponding fields over the N entries of getDailyStats(N).
C6_SummaryMatchesDaily ==
  apc = "getWeeklySummary" =>
    LET w == weekly[1]
        rows == GetDailyStats(days)
        NSessions(r) == r.sessions
        NMessages(r) == r.messages
        NToolCalls(r) == r.toolCalls
        NTokens(r) == r.tokens
        NCost(r) == r.cost
    IN /\ w.totalSessions = Column(rows, NSessions)
       /\ w.totalMessages = Column(rows, NMessages)
       /\ w.totalToolCalls = Column(rows, NToolCalls)
       /\ w.totalTokens = Column(rows, NTokens)
       /\ w.totalCost = Column(rows, NCost)

\* C7: filterByDays(days) returns exactly the Sessions whose startTime lies
\* in [now - days, now]; no startTime, earlier or later ones are excluded.
C7_ClosedWindow ==
  apc = "filterByDays" =>
    LET Inside(x) == /\ x.startTime # 0
                     /\ now - days * HoursPerDay <= x.startTime
                     /\ x.startTime <= now
    IN filtered = SelectSeq(sessions, Inside)

\* The local calendar day of an instant.
LocalDay(t) == (t + tz) \div HoursPerDay

\* C8: getDailyStats(days) returns exactly `days` entries, oldest day first,
\* one per consecutive calendar day ending with the reference day: entry k
\* counts the Sessions that started on local day today - (days - k), the
\* date labels rise by one day per entry, and a day without Sessions has an
\* entry whose counts and sums are all zero.
C8_DailyShape ==
  apc = "getDailyStats" =>
    /\ Len(daily) = days
    /\ \A k \in 1..Len(daily) :
         LET day == LocalDay(now) - (days - k)
             onDay == {i \in 1..Len(sessions) :
                         /\ sessions[i].startTime # 0
                         /\ LocalDay(sessions[i].startTime) = day}
         IN /\ daily[k].sessions = Cardinality(onDay)
            /\ k < Len(daily) => daily[k + 1].date = daily[k].date + 1
            /\ onDay = {} =>
                 /\ daily[k].messages = 0 /\ daily[k].toolCalls = 0
                 /\ daily[k].tokens = 0 /\ daily[k].cost = 0
                 /\ daily[k].userMessages = 0 /\ daily[k].assistantMessages = 0

\* C8 witness: two entries, yesterday with one Session and today with none.
C8_Witness ==
  /\ apc = "getDailyStats" /\ days = 2
  /\ Len(sessions) = 2
  /\ daily[1].sessions = 1 /\ daily[1].tokens = 12000
  /\ daily[2].sessions = 0 /\ daily[2].tokens = 0

Ordered(findings, Rank(_)) ==
  \A i, j \in 1..Len(findings) :
    i < j => Rank(findings[i].type) <= Rank(findings[j].type)

OfType(findings, types) ==
  LET Test(f) == f.type \in types IN SelectSeq(findings, Test)

DaySessions == {0, 2, 5}
\* The cost of a day with two sessions.
QuietCosts == {5, 6, 90}
\* The cost of a day with five sessions.
BusyCost == 100
\* weeklyStats.totalCost
WeekCosts == {7, 210}
\* <<weeklyStats.totalToolCalls, weeklyStats.toolErrors>>
ErrorCases == {<<100, 12>>, <<100, 10>>, <<100, 4>>, <<10, 4>>, <<40, 6>>, <<0, 0>>}

\* An entry of dailyStats with n sessions on date label k.
SyntheticDay(k, n, quiet) ==
  [date |-> k, sessions |-> n, messages |-> 2 * n, toolCalls |-> n,
   tokens |-> 7 * n,
   cost |-> IF n = 0 THEN 0 ELSE IF n = 2 THEN quiet ELSE BusyCost,
   userMessages |-> n, assistantMessages |-> n]

\* A weeklyStats record with the given cost, tool calls and tool errors.
SyntheticWeek(cost, calls, errors) ==
  [totalSessions |-> 7, totalMessages |-> 14, totalToolCalls |-> calls,
   totalTokens |-> 49, totalCost |-> cost, avgTokensPerSession |-> 7,
   avgMessagesPerSession |-> 2, topTools |-> <<>>, peakHour |-> 0,
   hourlyActivity |-> [h \in 1..HoursPerDay |-> 0], models |-> <<>>,
   toolErrors |-> errors]

CallDetectCostSpikes ==
  /\ apc = "idle"
  /\ apc' = "detectCostSpikes"
  /\ anomalies' = DetectCostSpikes(daily, weekly[1])
  /\ UNCHANGED <<now, tz, sessions, days, filtered, daily, weekly>>
  /\ UNCHANGED <<wvars, pvars, dvars>>

CallDetectToolErrors ==
  /\ apc = "idle"
  /\ apc' = "detectToolErrors"
  /\ anomalies' = DetectToolErrors(weekly[1])
  /\ UNCHANGED <<now, tz, sessions, days, filtered, daily, weekly>>
  /\ UNCHANGED <<wvars, pvars, dvars>>

CallDetectActivityGaps ==
  /\ apc = "idle"
  /\ apc' = "detectActivityGaps"
  /\ anomalies' = DetectActivityGaps(daily)
  /\ UNCHANGED <<now, tz, sessions, days, filtered, daily, weekly>>
  /\ UNCHANGED <<wvars, pvars, dvars>>

RulesNext ==
  \/ CallDetectCostSpikes
  \/ CallDetectToolErrors
  \/ CallDetectActivityGaps

\* A rule is called with a week of dailyStats and a weeklyStats record.
\* Nothing else runs.
InitRules ==
  /\ \E quiet \in QuietCosts :
       daily \in {[k \in 1..WeekDays |-> SyntheticDay(k, n[k], quiet)] :
                    n \in [1..WeekDays -> DaySessions]}
  /\ \E c \in WeekCosts : \E e \in ErrorCases :
       weekly = <<SyntheticWeek(c, e[1], e[2])>>
  /\ apc = "idle" /\ days = WeekDays /\ anomalies = <<>>
  /\ now = 0 /\ tz = 0 /\ sessions = <<>> /\ filtered = <<>>
  /\ files = [p \in Paths |-> Absent]
  /\ filePositions = [p \in Paths |-> Untracked]
  /\ stats = InitStats /\ started = FALSE
  /\ pendingAdd = {} /\ pendingChange = {}
  /\ execs = [e \in ExecIds |-> IdleExec]
  /\ folded = [p \in Paths |-> <<>>]
  /\ shown = InitStats
  /\ pfile = <<>> /\ ppc = "off" /\ pidx = 0 /\ plines = <<>>
  /\ session = [null |-> TRUE]
  /\ logDir = NoDir /\ batch = BatchOff

SpecRules == InitRules /\ [][RulesNext]_vars

\* The entries of dailyStats that the condition selects, in order.
DaysWhere(Cond(_)) ==
  LET Test(k) == Cond(daily[k])
  IN SelectSeq([k \in 1..Len(daily) |-> k], Test)

\* C18: the cost-spike rule emits a finding for a day iff that day's cost
\* exceeds 3 x (total cost / 7) and exceeds 0.5; each finding has severity
\* high, value = the day's cost and threshold = 3 x (total cost / 7).
C18_CostSpike ==
  apc = "detectCostSpikes" =>
    LET total == weekly[1].totalCost
        Spike(day) == day.cost * 7 > 3 * total /\ day.cost > 5
        hits == DaysWhere(Spike)
    IN /\ Len(anomalies) = Len(hits)
       /\ \A i \in 1..Len(hits) :
            LET f == anomalies[i]
                day == daily[hits[i]]
            IN /\ f.type = "cost_spike" /\ f.severity = "high"
               /\ f.date = <<day.date>>
               /\ f.value[1] = day.cost * f.value[2]
               /\ f.threshold[1] * 7 = 3 * total * f.threshold[2]

\* C18 witness: total cost 21.0 and a day of cost 10.0: the rule has fired
\* with value 10.0 and threshold 9.0; a day of cost 9.0 is not reported.
C18_Witness ==
  /\ apc = "detectCostSpikes"
  /\ weekly[1].totalCost = 210
  /\ \E k \in 1..Len(daily) : daily[k].cost = 90
  /\ \E i \in 1..Len(anomalies) :
       /\ anomalies[i].value[1] = 100 * anomalies[i].value[2]
       /\ anomalies[i].threshold[1] = 90 * anomalies[i].threshold[2]
       /\ anomalies[i].severity = "high"
  /\ \A i \in 1..Len(anomalies) : anomalies[i].value[1] # 90 * anomalies[i].value[2]

\* C19: the error-rate rule emits exactly one finding, of severity high,
\* iff toolErrors / totalToolCalls > 0.1 and toolErrors > 5, and none
\* otherwise; with zero tool calls it does not fire.
C19_ErrorRate ==
  apc = "detectToolErrors" =>
    LET calls == weekly[1].totalToolCalls
        errors == weekly[1].toolErrors
    IN IF calls > 0 /\ 10 * errors > calls /\ errors > 5
       THEN /\ Len(anomalies) = 1
            /\ anomalies[1].type = "high_error_rate"
            /\ anomalies[1].severity = "high"
       ELSE anomalies = <<>>

\* C19 witness: 100 tool calls with 12 errors: the rule has fired once.
C19_Witness ==
  /\ apc = "detectToolErrors"
  /\ weekly[1].totalToolCalls = 100 /\ weekly[1].toolErrors = 12
  /\ Len(anomalies) = 1 /\ anomalies[1].severity = "high"

\* Length of the run of zero-session days that ends with day k (0 when
\* day k has sessions).
ZeroRun(k) ==
  IF daily[k].sessions # 0 THEN 0
  ELSE LET busy == {j \in 1..k : daily[j].sessions # 0}
       IN IF busy = {} THEN k ELSE k - SetMax(busy)

\* C20: scanning the buckets oldest first, the activity-gap rule emits one
\* finding of severity low for each day that is the 2nd or a later day of
\* a run of consecutive zero-session days, with value = the run length
\* reached at that day, and none for any other day.
C20_ActivityGaps ==
  apc = "detectActivityGaps" =>
    LET Gap(k) == ZeroRun(k) >= 2
        hits == SelectSeq([k \in 1..Len(daily) |-> k], Gap)
    IN /\ Len(anomalies) = Len(hits)
       /\ \A i \in 1..Len(hits) :
            LET f == anomalies[i]
            IN /\ f.type = "activity_gap" /\ f.severity = "low"
               /\ f.date = <<daily[hits[i]].date>>
               /\ f.value[1] = ZeroRun(hits[i]) * f.value[2]

\* C20 witness: the buckets 0,0,0,5,0,0,2 have given findings with the
\* values 2, 3, 2.
C20_Witness ==
  /\ apc = "detectActivityGaps"
  /\ [k \in 1..Len(daily) |-> daily[k].sessions] = <<0, 0, 0, 5, 0, 0, 2>>
  /\ [i \in 1..Len(anomalies) |-> anomalies[i].value] = <<<<2, 1>>, <<3, 1>>, <<2, 1>>>>

(***************************************************************************)
(* Properties of the summary and of the tool-usage rule                    *)
(***************************************************************************)
\* The tool names called by the Sessions of the window of the last call, in
\* scan order.
WindowNames == ToolNames(FilterByDays(days))
ToolsIn(names) == {names[i] : i \in 1..Len(names)}
\* How often each tool was called, and where each was seen first.
CallCounts(names) ==
  [t \in ToolsIn(names) |-> Cardinality({i \in 1..Len(names) : names[i] = t})]
FirstIndexes(names) ==
  [t \in ToolsIn(names) |->
     CHOOSE i \in 1..Len(names) : names[i] = t /\ \A j \in 1..(i - 1) : names[j] # t]
\* Tool a is listed before tool b: more calls, or as many and seen first.
RanksBefore(count, first, a, b) ==
  \/ count[a] > count[b]
  \/ count[a] = count[b] /\ first[a] < first[b]

\* C22: with no Session in the window the averages of getWeeklySummary are
\* 0, and with a zero denominator (no tool call, no Session, no activity)
\* the error-rate, unusual-hours, tool-dominance and call-frequency rules
\* emit no finding.
C22_ZeroDenominators ==
  /\ (apc = "getWeeklySummary" /\ weekly[1].totalSessions = 0) =>
       /\ weekly[1].avgTokensPerSession = 0
       /\ weekly[1].avgMessagesPerSession = 0
  /\ apc = "detect" =>
       LET w == GetWeeklySummary(WeekDays)
       IN /\ w.totalToolCalls = 0 =>
               OfType(anomalies, {"high_error_rate", "tool_dominance"}) = <<>>
          /\ SumSeq(w.hourlyActivity) = 0 =>
               OfType(anomalies, {"unusual_hours"}) = <<>>
          /\ w.totalSessions = 0 =>
               OfType(anomalies, {"high_tool_frequency"}) = <<>>

\* C22 witness: a summary over a window that holds none of the two Sessions
\* given (neither has a usable startTime).
C22_Witness ==
  /\ apc = "getWeeklySummary"
  /\ Len(sessions) = 2
  /\ weekly[1].totalSessions = 0
  /\ weekly[1].avgTokensPerSession = 0

C27_Histogram ==
  apc = "getWeeklySummary" =>
    LET hist == weekly[1].hourlyActivity
        peak == weekly[1].peakHour
    IN /\ Len(hist) = HoursPerDay
       /\ \A h \in 1..Len(hist) : hist[h] >= 0
       /\ SumSeq(hist) = weekly[1].totalSessions
       /\ peak \in 0..(HoursPerDay - 1)
       /\ \A h \in 1..Len(hist) : hist[h] <= hist[peak + 1]
       /\ \A h \in 1..peak : hist[h] < hist[peak + 1]
       /\ (\A h \in 1..Len(hist) : hist[h] = 0) => peak = 0

\* C27 witness: two Sessions of the window started in different hours, the
\* later hour first in the list; both buckets hold 1 and peakHour is the
\* earlier hour.
C27_Witness ==
  /\ apc = "getWeeklySummary"
  /\ weekly[1].totalSessions = 2
  /\ weekly[1].hourlyActivity[weekly[1].peakHour + 1] = 1
  /\ GetHours(sessions[1].startTime) > weekly[1].peakHour
  /\ GetHours(sessions[2].startTime) = weekly[1].peakHour

\* C28: detect reports at most one tool_dominance finding, and then for the
\* first entry of topTools; every tool of the window with
\* count / totalToolCalls > 0.5 and count > 50 is reported, whether or not
\* topTools was cut to ten entries.
C28_OneDominantTool ==
  apc = "detect" =>
    LET dom == OfType(anomalies, {"tool_dominance"})
        w == GetWeeklySummary(days)
        names == WindowNames
        count == CallCounts(names)
    IN /\ Len(dom) <= 1
       /\ Len(dom) = 1 => dom[1].tool = w.topTools[1][1]
       /\ \A t \in ToolsIn(names) :
            (count[t] * 2 > Len(names) /\ count[t] > DominanceFloor)
              => \E k \in 1..Len(dom) : dom[k].tool = t

\* C28 witness: eleven tools called once and then "read" called 60 times of
\* 71 calls: twelve tools, topTools cut to ten, "read" reported.
C28_Witness ==
  /\ apc = "detect"
  /\ Cardinality(ToolsIn(WindowNames)) = 12
  /\ WindowNames[1] = "t01"
  /\ Len(OfType(anomalies, {"tool_dominance"})) = 1
  /\ OfType(anomalies, {"tool_dominance"})[1].tool = "read"

====
